---- MODULE Spec2Model ----
(***************************************************************************)
(* Model of the live-subtitle pipeline: DeepgramTranscriber                *)
(* (src/src/deepgram_transcriber.py) with the callbacks main.py installs   *)
(* on it (src/main.py).                                                    *)
(*                                                                         *)
(* Event-loop code runs atomically between two awaits, so every action is  *)
(* one such stretch of a coroutine; a recognizer callback (provider        *)
(* thread) is one action as well.  Texts are strings; the polish service   *)
(* is an environment that answers with one of PolishOutcomes.              *)
(***************************************************************************)
EXTENDS Integers, Sequences, FiniteSets, TLC

\* ------------------------------------------------------------------------
\* Program constants
\* ------------------------------------------------------------------------
max_reconnect_attempts == 5
context_window == 40

\* ------------------------------------------------------------------------
\* Bounds of the model
\* ------------------------------------------------------------------------
\* clock ticks in one second (translation_threshold is 1.0 s)
Second == 2
\* ticks the clock may advance
MaxTicks == 2
\* non-empty transcript fragments the recognizer delivers
MaxFrag == 2
\* calls of start() after the first one
MaxRestarts == 1
\* reconnection attempts that succeed
MaxSuccess == 1
\* calls of send_audio()
MaxSend == 1
\* events of torn-down connections still under way
MaxLate == 1
\* polish calls of the context-window specification
MaxCtxCalls == 42
\* polish calls of the context-window specification that return no valid JSON
MaxCtxFaults == 1
MaxBad == 1

\* chunk_duration is counted in units of 1/48000 s
TicksPerSecond == 48000

\* the chunk durations tried, in those units
MinDuration == 3

MaxDuration == 12

\* device_info['default_samplerate'] of the devices tried
SampleRates == {16000, 44100, 48000}

\* no chunk was put into the queue yet
NoChunk == [frames |-> 0, channels |-> 0, rate |-> 0, samples |-> 0, bytes |-> 0]
\* _capture_loop threads started
MaxCaptureStarts == 2
\* blocks the input streams deliver
MaxChunks == 4

VARIABLES
    \* DeepgramTranscriber fields
    interim_results,        \* constructor argument
    connection,             \* None, or the state of the connection object held
    is_running,
    connection_ready,
    main_loop,              \* TRUE once start() stored the running loop
    reconnect_attempts,
    is_reconnecting,
    recent_transcriptions,  \* ContextWindow
    pending_text,
    last_translation_time,
    polish_queue,           \* asyncio.Queue: items and None sentinels
    polish_task,            \* None, or where the _polish_processor task stands
    inflight,               \* the text whose polish call is outstanding
    prompt_context,         \* `context` of the last _polish_transcription call
    \* event loop
    scheduled_polish,       \* _queue_for_polish coroutines handed to the loop, FIFO
    scheduled_reconnect,    \* _reconnect coroutines handed to the loop, not yet run
    sleepers,               \* _reconnect coroutines suspended in asyncio.sleep
    caller,                 \* the user of start()/stop()
    \* DeepgramLiveSubtitle (main.py)
    last_chinese_translation,
    displayed,              \* calls of subtitle_display.update_subtitle
    \* environment
    now,                    \* wall clock, in ticks
    late_open,              \* open events of torn-down connections still under way
    late_close,             \* error/close events of torn-down connections still under way
    frag_log,               \* the non-empty fragments handled by _on_transcript
    bad_events,             \* transcript events without a result, or whose handling raised
    starts,                 \* calls of start()
    successes,              \* reconnection attempts that succeeded
    send_calls,             \* calls of send_audio()
    ctx_calls,              \* polish calls of the context-window specification
    ctx_faults,             \* those of them that returned no valid JSON
    last_outcome,           \* how the last polish call ended ("none": no call yet)
    \* observation
    emitted,                \* results passed to the transcription callback
    errors,                 \* messages passed to the error callback
    audio_sent,             \* chunks handed to connection.send
    last_submission_at,     \* time of the last polish submission (0: none yet)
    appended,               \* every result ever appended to recent_transcriptions
    pre_stop,               \* texts in the polish stage when stop() was called
    loops_since_failure,    \* retry loops entered since a held connection last failed
    failed_attempts,        \* reconnection attempts failed since the last success
    exhausted,              \* TRUE once _reconnect gave up (session Failed)
    stop_log,               \* what the last call of stop() did, in the order it did it
    provider_writes,        \* fields assigned by a recognizer callback (provider thread)
    last_fragment,          \* the transcript event _on_transcript handled last
    \* MacSystemAudioCapture (audio_capture.py)
    is_recording,
    capture_threads,        \* the _capture_loop threads started, in order; the last
                            \* one is self.capture_thread
    audio_queue,            \* chunks held by the queue.Queue
    in_callback,            \* audio_callback runs that passed `if self.is_recording`
    capture_caller,         \* where the caller of start_capture/stop_capture stands
    last_stop_capture,      \* what the last call of stop_capture() did
    chunks,                 \* chunks delivered by the input streams so far
    default_samplerate,     \* device_info['default_samplerate'] of the device
    chunk_duration,         \* constructor argument, in units of 1/48000 s
    device_sample_rate,     \* 0 while the attribute is not set
    last_chunk,             \* the chunk put into audio_queue last
    \* DeepgramLiveSubtitle (main.py), event-loop thread
    app_pc,                 \* position of _async_main / _async_cleanup
    app_is_running,         \* DeepgramLiveSubtitle.is_running
    audio_task              \* None, or where the _audio_processing_loop task stands

sessionVars == <<connection, is_running, connection_ready, main_loop,
                 reconnect_attempts, is_reconnecting>>
aggVars == <<pending_text, last_translation_time, last_submission_at, frag_log,
             bad_events>>
polishVars == <<recent_transcriptions, appended, polish_queue, polish_task, inflight,
                prompt_context>>
loopVars == <<scheduled_polish, scheduled_reconnect, sleepers>>
poolVars == <<late_open, late_close>>
outVars == <<emitted, displayed, last_chinese_translation, errors>>
audioVars == <<send_calls, audio_sent>>
ghostVars == <<pre_stop, loops_since_failure, failed_attempts, exhausted,
               successes, starts, ctx_calls, ctx_faults, last_outcome>>
deviceVars == <<default_samplerate, chunk_duration, device_sample_rate, last_chunk>>
captureVars == <<is_recording, capture_threads, audio_queue, in_callback,
                 capture_caller, last_stop_capture, chunks, deviceVars>>
appVars == <<app_pc, app_is_running, audio_task>>
transcriberVars == <<interim_results, sessionVars, aggVars, polishVars, loopVars,
                     poolVars, outVars, audioVars, ghostVars, caller, now,
                     stop_log, provider_writes, last_fragment>>
vars == <<transcriberVars, captureVars, appVars>>

\* ------------------------------------------------------------------------
\* Values
\* ------------------------------------------------------------------------
None == "None"

\* A connection object is in one of these states in the recognizer SDK:
\*   pending  started, open event not delivered yet
\*   live     open event delivered
\*   errored  an error event was delivered, the close event may follow
\*   closed   the close event was delivered
\*   failed   connection.start() returned False
ConnStates == {"pending", "live", "errored", "closed", "failed"}

\* _polish_processor: created (not run yet), waiting (in queue.get), inflight
\* (polish call outstanding), done (returned)
TaskStates == {"created", "waiting", "inflight", "done"}

translation_threshold == 1 * Second

\* the text of the k-th non-empty fragment
FragText(k) == "t" \o ToString(k)

\* what the polish service answers for a text
Translate(text) == "zh:" \o text

\* How a polish call ends: valid JSON, malformed JSON with the field in it,
\* malformed JSON without it, or an exception
PolishOutcomes == {"json", "extract", "fallback", "raise"}

TranscriptionResult(lang, original, translation, final) ==
    [detected_language |-> lang, original_text |-> original,
     chinese_translation |-> translation, is_final |-> final]

reconnect_result ==
    TranscriptionResult("system", "[Reconnected]", "[reconnected-zh]", TRUE)

Item(text) == [is_none |-> FALSE, text |-> text]
NoneItem == [is_none |-> TRUE, text |-> ""]

SubtitleUpdate(original, chinese, duration) ==
    [original_text |-> original, chinese_text |-> chinese, duration |-> duration]

Constructed ==
    /\ interim_results \in BOOLEAN
    /\ connection = None
    /\ is_running = FALSE
    /\ connection_ready = FALSE
    /\ main_loop = FALSE
    /\ reconnect_attempts = 0
    /\ is_reconnecting = FALSE
    /\ recent_transcriptions = <<>>
    /\ pending_text = ""
    /\ last_translation_time = 0
    /\ polish_queue = <<>>
    /\ polish_task = None
    /\ inflight = ""
    /\ prompt_context = [start |-> FALSE, parts |-> <<>>]
    /\ scheduled_polish = <<>>
    /\ scheduled_reconnect = 0
    /\ sleepers = 0
    /\ caller = "idle"
    /\ last_chinese_translation = ""
    /\ displayed = <<>>
    /\ now = translation_threshold
    /\ late_open = 0
    /\ late_close = 0
    /\ frag_log = <<>>
    /\ bad_events = 0
    /\ starts = 0
    /\ successes = 0
    /\ send_calls = 0
    /\ ctx_calls = 0
    /\ ctx_faults = 0
    /\ last_outcome = "none"
    /\ emitted = <<>>
    /\ errors = <<>>
    /\ audio_sent = 0
    /\ last_submission_at = 0
    /\ appended = <<>>
    /\ pre_stop = {}
    /\ loops_since_failure = 0
    /\ failed_attempts = 0
    /\ exhausted = FALSE
    /\ stop_log = <<>>
    /\ provider_writes = {}
    /\ last_fragment = [kind |-> "none", text |-> ""]
    /\ is_recording = FALSE
    /\ capture_threads = <<>>
    /\ audio_queue = 0
    /\ in_callback = 0
    /\ device_sample_rate = 0
    /\ last_chunk = NoChunk
    /\ capture_caller = "idle"
    /\ last_stop_capture = "none"
    /\ chunks = 0
    /\ app_pc = "new"
    /\ app_is_running = FALSE
    /\ audio_task = None

\* The state after construction, with the usual device: BlackHole at 48 kHz
\* and chunk_duration 0.5 s
Init ==
    /\ Constructed
    /\ default_samplerate = 48000
    /\ chunk_duration = 24000

\* The state after construction with any of the devices and chunk durations
NormalizerInit ==
    /\ Constructed
    /\ default_samplerate \in SampleRates
    /\ chunk_duration \in MinDuration..MaxDuration

\* ------------------------------------------------------------------------
\* Callbacks installed by main.py
\* ------------------------------------------------------------------------
\* DeepgramLiveSubtitle._on_transcription: the update_subtitle calls after `result`
DisplayAfter(result) ==
    IF result.is_final /\ result.chinese_translation # ""
    THEN Append(displayed, SubtitleUpdate(result.original_text,
                                          result.chinese_translation, "5.0"))
    ELSE IF ~result.is_final
    THEN Append(displayed, SubtitleUpdate(result.original_text,
                                          last_chinese_translation, "2.0"))
    ELSE displayed

\* DeepgramLiveSubtitle._on_transcription: last_chinese_translation after `result`
LastTranslationAfter(result) ==
    IF result.is_final /\ result.chinese_translation # ""
    THEN result.chinese_translation
    ELSE last_chinese_translation

\* self._transcription_callback(result)
_transcription_callback(result) ==
    /\ emitted' = Append(emitted, result)
    /\ displayed' = DisplayAfter(result)
    /\ last_chinese_translation' = LastTranslationAfter(result)
    /\ errors' = errors

\* (an error path that reports the same failure twice)
_error_callback_twice(msg) ==
    /\ errors' = Append(Append(errors, msg), msg)
    /\ displayed' = Append(Append(displayed, SubtitleUpdate("Error", msg, "5.0")),
                           SubtitleUpdate("Error", msg, "5.0"))
    /\ UNCHANGED <<emitted, last_chinese_translation>>

\* self._error_callback(msg): DeepgramLiveSubtitle._on_error shows the message
_error_callback(msg) ==
    /\ errors' = Append(errors, msg)
    /\ displayed' = Append(displayed, SubtitleUpdate("Error", msg, "5.0"))
    /\ UNCHANGED <<emitted, last_chinese_translation>>

\* ------------------------------------------------------------------------
\* The recognizer SDK: events of a connection object the session no longer
\* holds (finished, or overwritten) may still be delivered
\* ------------------------------------------------------------------------
\* MaxLate bounds the events under way; an open event is counted first
LateOpenAfter(conn, lopen, lclose) ==
    IF conn = "pending" /\ lopen + lclose < MaxLate THEN lopen + 1 ELSE lopen

LateCloseAfter(conn, lopen, lclose) ==
    IF /\ conn \in {"pending", "live", "errored", "failed"}
       /\ LateOpenAfter(conn, lopen, lclose) + lclose < MaxLate
    THEN lclose + 1 ELSE lclose

\* ------------------------------------------------------------------------
\* DeepgramTranscriber.start / stop / send_audio
\* ------------------------------------------------------------------------
StartBody(ok) ==
    /\ caller \in {"idle", "restopped"}
    /\ starts' = starts + 1
    /\ is_running' = TRUE
    /\ main_loop' = TRUE
    /\ late_open' = LateOpenAfter(connection, late_open, late_close)
    /\ late_close' = LateCloseAfter(connection, late_open, late_close)
    /\ exhausted' = FALSE
    /\ IF ok
       THEN /\ connection' = "pending"
            /\ polish_task' = "created"
            /\ caller' = "running"
            /\ UNCHANGED outVars
       ELSE /\ connection' = "failed"
            /\ polish_task' = polish_task
            /\ caller' = "start_failed"
            /\ _error_callback("start failed")
    /\ UNCHANGED <<interim_results, captureVars, stop_log, provider_writes, last_fragment,
                   connection_ready, reconnect_attempts,
                   is_reconnecting, aggVars, recent_transcriptions, appended,
                   polish_queue, inflight, prompt_context, loopVars, audioVars, now, pre_stop,
                   loops_since_failure, failed_attempts, successes, ctx_calls, ctx_faults, last_outcome>>

\* the first start() of the object
start(ok) == starts = 0 /\ StartBody(ok)

\* start() on an object that was started before
restart(ok) == starts > 0 /\ starts <= MaxRestarts /\ StartBody(ok)

\* the texts the polish stage holds: queued, or in the outstanding call
InPolishStage ==
    {polish_queue[i].text : i \in {j \in 1..Len(polish_queue) : ~polish_queue[j].is_none}}
        \cup (IF polish_task = "inflight" THEN {inflight} ELSE {})

\* (a stop() that awaits the consumer task without asking whether there is one)
AwaitsConsumer_unguarded == TRUE

\* stop(): `if self.polish_task:`
AwaitsConsumer == polish_task # None

\* stop() up to its `await self.polish_task`
stop ==
    /\ caller \in {"idle", "running", "start_failed"}
    /\ is_running' = FALSE
    /\ is_reconnecting' = FALSE
    /\ connection' = None
    /\ late_open' = LateOpenAfter(connection, late_open, late_close)
    /\ late_close' = LateCloseAfter(connection, late_open, late_close)
    /\ pre_stop' = pre_stop \cup InPolishStage
    /\ stop_log' = (IF connection # None THEN <<"connection.finish">> ELSE <<>>)
                       \o (IF polish_task # None THEN <<"polish_queue.put(None)">> ELSE <<>>)
    /\ IF AwaitsConsumer
       THEN /\ polish_queue' = Append(polish_queue, NoneItem)
            /\ caller' = IF polish_task # "done" THEN "stopping"
                         ELSE IF caller = "idle" THEN "restopped" ELSE "idle"
       ELSE /\ polish_queue' = polish_queue
            /\ caller' = IF caller = "idle" THEN "restopped" ELSE "idle"
    /\ UNCHANGED <<interim_results, captureVars, provider_writes, last_fragment,
                   connection_ready, main_loop, reconnect_attempts,
                   aggVars, recent_transcriptions, appended, polish_task, inflight, prompt_context,
                   loopVars, outVars, audioVars, now, loops_since_failure,
                   failed_attempts, exhausted, successes, starts, ctx_calls, ctx_faults, last_outcome>>

\* stop(): `await self.polish_task` returns
stop_return ==
    /\ caller = "stopping"
    /\ polish_task = "done"
    /\ caller' = "idle"
    /\ UNCHANGED <<interim_results, captureVars, stop_log, provider_writes, last_fragment,
                   sessionVars, aggVars, polishVars, loopVars,
                   poolVars, outVars, audioVars, ghostVars, now>>

\* (a guard that forgets the readiness flag)
CanSend_no_ready == connection # None /\ is_running

\* the condition under which send_audio passes the chunk on
CanSend == connection # None /\ is_running /\ connection_ready

send_audio(raises) ==
    /\ send_calls < MaxSend
    /\ send_calls' = send_calls + 1
    /\ IF CanSend
       THEN /\ audio_sent' = audio_sent + 1
            /\ IF raises THEN _error_callback("send failed") ELSE UNCHANGED outVars
       ELSE UNCHANGED <<audio_sent, outVars>>
    /\ UNCHANGED <<interim_results, stop_log, provider_writes, last_fragment,
                   sessionVars, aggVars, polishVars, loopVars,
                   poolVars, ghostVars, caller, now>>

\* ------------------------------------------------------------------------
\* Recognizer events (provider thread)
\* ------------------------------------------------------------------------
\* `late`: the event belongs to a connection the session no longer holds
_on_open(late) ==
    /\ IF late
       THEN /\ late_open > 0
            /\ late_open' = late_open - 1
            /\ connection' = connection
       ELSE /\ connection = "pending"
            /\ connection' = "live"
            /\ late_open' = late_open
    /\ connection_ready' = TRUE
    /\ provider_writes' = provider_writes \cup {"connection_ready"}
    /\ UNCHANGED <<interim_results, appVars, captureVars, stop_log, last_fragment,
                   is_running, main_loop, reconnect_attempts,
                   is_reconnecting, aggVars, polishVars, loopVars, late_close,
                   outVars, audioVars, ghostVars, caller, now>>

\* (an event handler that schedules a reconnection without looking at is_running)
ScheduleReconnection_always ==
    /\ connection_ready' = FALSE
    /\ provider_writes' = provider_writes \cup {"connection_ready"}
    /\ scheduled_reconnect' =
          IF main_loop /\ ~is_reconnecting
          THEN scheduled_reconnect + 1 ELSE scheduled_reconnect

\* the body shared by _on_error and _on_close
ScheduleReconnection ==
    /\ connection_ready' = FALSE
    /\ provider_writes' = provider_writes \cup {"connection_ready"}
    /\ scheduled_reconnect' =
          IF is_running /\ main_loop /\ ~is_reconnecting
          THEN scheduled_reconnect + 1 ELSE scheduled_reconnect

_on_error(late) ==
    /\ IF late
       THEN /\ late_close > 0
            /\ late_close' = late_close - 1
            /\ UNCHANGED <<connection, loops_since_failure>>
       ELSE /\ connection \in {"pending", "live", "failed"}
            /\ connection' = "errored"
            /\ loops_since_failure' = 0
            /\ late_close' = late_close
    /\ ScheduleReconnection
    /\ UNCHANGED <<interim_results, appVars, captureVars, stop_log, last_fragment,
                   is_running, main_loop, reconnect_attempts,
                   is_reconnecting, aggVars, polishVars, scheduled_polish, sleepers,
                   late_open, outVars, audioVars, pre_stop,
                   failed_attempts, exhausted, successes, starts, ctx_calls, ctx_faults, last_outcome,
                   caller, now>>

_on_close(late) ==
    /\ IF late
       THEN /\ late_close > 0
            /\ late_close' = late_close - 1
            /\ UNCHANGED <<connection, loops_since_failure>>
       ELSE /\ connection \in {"pending", "live", "errored", "failed"}
            /\ connection' = "closed"
            /\ loops_since_failure' = IF connection = "errored" THEN loops_since_failure ELSE 0
            /\ late_close' = late_close
    /\ ScheduleReconnection
    /\ UNCHANGED <<interim_results, appVars, captureVars, stop_log, last_fragment,
                   is_running, main_loop, reconnect_attempts,
                   is_reconnecting, aggVars, polishVars, scheduled_polish, sleepers,
                   late_open, outVars, audioVars, pre_stop,
                   failed_attempts, exhausted, successes, starts, ctx_calls, ctx_faults, last_outcome,
                   caller, now>>

\* ------------------------------------------------------------------------
\* DeepgramTranscriber._reconnect
\* ------------------------------------------------------------------------
\* One evaluation of the while condition, and the loop body up to the sleep.
\* conn, running, attempts, guard, nsleep, lopen, lclose: the values the loop
\* finds; the loop body leaves is_reconnecting alone, the exit clears it.
ReconnectIterate(conn, running, attempts, guard, nsleep, lopen, lclose) ==
    IF running /\ attempts < max_reconnect_attempts
    THEN /\ reconnect_attempts' = attempts + 1
         /\ connection' = None
         /\ late_open' = LateOpenAfter(conn, lopen, lclose)
         /\ late_close' = LateCloseAfter(conn, lopen, lclose)
         /\ is_reconnecting' = guard
         /\ sleepers' = nsleep + 1
    ELSE /\ reconnect_attempts' = attempts
         /\ connection' = conn
         /\ late_open' = lopen
         /\ late_close' = lclose
         /\ is_reconnecting' = FALSE
         /\ sleepers' = nsleep

\* a scheduled _reconnect coroutine runs up to its first sleep
_reconnect ==
    /\ scheduled_reconnect > 0
    /\ scheduled_reconnect' = scheduled_reconnect - 1
    /\ IF is_reconnecting \/ ~is_running
       THEN UNCHANGED <<reconnect_attempts, connection, late_open, late_close,
                        is_reconnecting, sleepers, loops_since_failure>>
       ELSE /\ loops_since_failure' = loops_since_failure + 1
            /\ ReconnectIterate(connection, is_running, reconnect_attempts, TRUE,
                                sleepers, late_open, late_close)
    /\ UNCHANGED <<interim_results, appVars, captureVars, stop_log, provider_writes, last_fragment,
                   is_running, connection_ready, main_loop, aggVars,
                   polishVars, scheduled_polish, outVars, audioVars, pre_stop, failed_attempts, exhausted, successes, starts,
                   ctx_calls, ctx_faults, last_outcome, caller, now>>

\* `if self.connection.start(options):` taken
ReconnectSucceeded ==
    /\ reconnect_attempts' = 0
    /\ is_reconnecting' = FALSE
    /\ _transcription_callback(reconnect_result)

\* a _reconnect coroutine returns from its sleep and opens a fresh connection;
\* ok: connection.start(options) returned True.  The loop runs what was handed
\* to it before the delay was over first.
_reconnect_wake(ok) ==
    /\ sleepers > 0
    /\ scheduled_reconnect = 0
    /\ scheduled_polish = <<>>
    /\ polish_task # "created"
    /\ ok => successes < MaxSuccess
    /\ IF ok
       THEN /\ connection' = "pending"
            /\ late_open' = LateOpenAfter(connection, late_open, late_close)
            /\ late_close' = LateCloseAfter(connection, late_open, late_close)
            /\ ReconnectSucceeded
            /\ sleepers' = sleepers - 1
            /\ successes' = successes + 1
            /\ failed_attempts' = 0
            /\ UNCHANGED <<is_running, exhausted>>
       ELSE /\ failed_attempts' = failed_attempts + 1
            /\ successes' = successes
            /\ IF reconnect_attempts >= max_reconnect_attempts
               THEN /\ _error_callback("cannot reconnect")
                    /\ is_running' = FALSE
                    /\ exhausted' = TRUE
                    /\ connection' = "failed"
                    /\ late_open' = LateOpenAfter(connection, late_open, late_close)
                    /\ late_close' = LateCloseAfter(connection, late_open, late_close)
                    /\ is_reconnecting' = FALSE
                    /\ sleepers' = sleepers - 1
                    /\ reconnect_attempts' = reconnect_attempts
               ELSE /\ ReconnectIterate("failed", is_running, reconnect_attempts,
                                        is_reconnecting, sleepers - 1,
                                        LateOpenAfter(connection, late_open, late_close),
                                        LateCloseAfter(connection, late_open, late_close))
                    /\ UNCHANGED <<is_running, exhausted, outVars>>
    /\ UNCHANGED <<interim_results, appVars, captureVars, stop_log, provider_writes, last_fragment,
                   connection_ready, main_loop, aggVars, polishVars,
                   scheduled_polish, scheduled_reconnect, audioVars, pre_stop,
                   loops_since_failure, starts, ctx_calls, ctx_faults, last_outcome, caller, now>>

\* connection.start(options) has returned True and the provider thread delivers
\* the error event of the fresh connection before _reconnect has executed
\* `self.is_reconnecting = False`: _on_error runs with the flags as the loop
\* left them, then the loop goes on to its return
_reconnect_wake_interrupted ==
    /\ sleepers > 0
    /\ scheduled_reconnect = 0
    /\ scheduled_polish = <<>>
    /\ polish_task # "created"
    /\ successes < MaxSuccess
    /\ connection' = "errored"
    /\ late_open' = LateOpenAfter(connection, late_open, late_close)
    /\ late_close' = LateCloseAfter(connection, late_open, late_close)
    /\ ScheduleReconnection
    /\ ReconnectSucceeded
    /\ sleepers' = sleepers - 1
    /\ successes' = successes + 1
    /\ failed_attempts' = 0
    /\ loops_since_failure' = 0
    /\ UNCHANGED <<interim_results, appVars, captureVars, stop_log, last_fragment,
                   is_running, main_loop, aggVars, polishVars, scheduled_polish,
                   audioVars, pre_stop, exhausted, starts, ctx_calls, ctx_faults,
                   last_outcome, caller, now>>

\* ------------------------------------------------------------------------
\* DeepgramTranscriber._on_transcript (provider thread)
\* ------------------------------------------------------------------------
Fragment(text, is_final) == [text |-> text, is_final |-> is_final]

\* run_coroutine_threadsafe(self._queue_for_polish(transcript, result), main_loop)
SubmitForPolish(text) ==
    IF main_loop THEN Append(scheduled_polish, Item(text)) ELSE scheduled_polish

\* `if time_since_last >= self.translation_threshold`
InterimDue_strict == now - last_translation_time > translation_threshold

InterimDue == now - last_translation_time >= translation_threshold

\* the fields a call of _on_transcript assigns
FieldsAssigned(text, is_final) ==
    IF text = "" THEN {}
    ELSE IF interim_results /\ ~is_final
    THEN IF InterimDue THEN {"pending_text", "last_translation_time"}
         ELSE {"pending_text"}
    ELSE IF is_final THEN {"pending_text", "last_translation_time"}
    ELSE {}

\* (a handler that reports a fragment it skips as an error)
SkipFragment_reports ==
    /\ _error_callback("transcript failed")
    /\ UNCHANGED <<pending_text, last_translation_time, last_submission_at, frag_log,
                   scheduled_polish>>

\* `return` at `if not result:` and at `if not transcript:`
SkipFragment ==
    UNCHANGED <<pending_text, last_translation_time, last_submission_at, frag_log,
                scheduled_polish, outVars>>

_on_transcript(text, is_final) ==
    /\ connection = "live"
    /\ last_fragment' = [kind |-> IF is_final THEN "final" ELSE "interim", text |-> text]
    /\ provider_writes' = provider_writes \cup FieldsAssigned(text, is_final)
    /\ bad_events' = bad_events
    /\ IF text = ""
       THEN SkipFragment
       ELSE /\ Len(frag_log) < MaxFrag
            /\ frag_log' = Append(frag_log, Fragment(text, is_final))
            /\ IF interim_results /\ ~is_final
               THEN /\ pending_text' = text
                    /\ _transcription_callback(
                          TranscriptionResult("en", text, "", FALSE))
                    /\ IF InterimDue
                       THEN /\ last_translation_time' = now
                            /\ last_submission_at' = now
                            /\ scheduled_polish' = SubmitForPolish(text)
                       ELSE UNCHANGED <<last_translation_time, last_submission_at,
                                        scheduled_polish>>
               ELSE IF is_final
               THEN /\ pending_text' = ""
                    /\ last_translation_time' = now
                    /\ last_submission_at' = now
                    /\ scheduled_polish' = SubmitForPolish(text)
                    /\ UNCHANGED outVars
               ELSE UNCHANGED <<pending_text, last_translation_time,
                                last_submission_at, scheduled_polish, outVars>>
    /\ UNCHANGED <<interim_results, appVars, captureVars, stop_log,
                   sessionVars, polishVars, scheduled_reconnect,
                   sleepers, poolVars, audioVars, ghostVars, caller, now>>

\* a transcript event without a result object: `if not result: return`
_on_transcript_no_result ==
    /\ connection = "live"
    /\ bad_events < MaxBad
    /\ bad_events' = bad_events + 1
    /\ last_fragment' = [kind |-> "no_result", text |-> ""]
    /\ SkipFragment
    /\ UNCHANGED <<interim_results, appVars, captureVars, stop_log, provider_writes,
                   sessionVars, polishVars, scheduled_reconnect,
                   sleepers, poolVars, audioVars, ghostVars, caller, now>>

\* where the handling of a transcript event may raise: reading the transcript
\* out of the result, or the transcription callback called for an interim one
RaisePoints == {"parse", "callback"}

\* a transcript event whose handling raises: `except Exception` reports it
_on_transcript_raises(text, at) ==
    /\ connection = "live"
    /\ bad_events < MaxBad
    /\ bad_events' = bad_events + 1
    /\ last_fragment' = [kind |-> "raised", text |-> text]
    /\ IF at = "callback"
       THEN /\ interim_results
            /\ pending_text' = text
            /\ provider_writes' = provider_writes \cup {"pending_text"}
       ELSE UNCHANGED <<pending_text, provider_writes>>
    /\ _error_callback("transcript failed")
    /\ UNCHANGED <<interim_results, appVars, captureVars, stop_log,
                   last_translation_time, last_submission_at, frag_log,
                   sessionVars, polishVars, loopVars, poolVars, audioVars,
                   ghostVars, caller, now>>

\* ------------------------------------------------------------------------
\* The polish stage
\* ------------------------------------------------------------------------
\* a scheduled _queue_for_polish coroutine runs: polish_queue.put(item)
_queue_for_polish ==
    /\ scheduled_polish # <<>>
    /\ polish_queue' = Append(polish_queue, Head(scheduled_polish))
    /\ scheduled_polish' = Tail(scheduled_polish)
    /\ UNCHANGED <<interim_results, appVars, captureVars, stop_log, provider_writes, last_fragment,
                   sessionVars, aggVars, recent_transcriptions,
                   appended, polish_task, inflight, prompt_context, scheduled_reconnect, sleepers,
                   poolVars, outVars, audioVars, ghostVars, caller, now>>

\* (a cut that keeps the oldest entries instead of the newest)
AddToContext_keep_oldest(window, result) ==
    LET w == Append(window, result)
    IN  IF Len(w) > context_window THEN SubSeq(w, 1, context_window) ELSE w

\* recent_transcriptions.append(result), cut to the last context_window entries
AddToContext(window, result) ==
    LET w == Append(window, result)
    IN  IF Len(w) > context_window
        THEN SubSeq(w, Len(w) - context_window + 1, Len(w))
        ELSE w

\* (a polish stage for which a response without the translation field is an error)
_polish_transcription_strict(text, outcome) ==
    IF outcome \in {"raise", "fallback"}
    THEN [result |-> TranscriptionResult("en", text, "", TRUE),
          window |-> recent_transcriptions,
          appended |-> appended]
    ELSE LET result == TranscriptionResult("en", text, Translate(text), TRUE)
         IN  [result |-> result,
              window |-> AddToContext(recent_transcriptions, result),
              appended |-> Append(appended, result)]

\* (a polish stage that appends its result to the window even when the call raised)
_polish_transcription_always_appends(text, outcome) ==
    LET translation == IF outcome \in {"fallback", "raise"} THEN "" ELSE Translate(text)
        result == TranscriptionResult("en", text, translation, TRUE)
    IN  [result |-> result,
         window |-> AddToContext(recent_transcriptions, result),
         appended |-> Append(appended, result)]

\* _polish_transcription(text, ...): the result it returns and the window it leaves
_polish_transcription(text, outcome) ==
    IF outcome = "raise"
    THEN [result |-> TranscriptionResult("en", text, "", TRUE),
          window |-> recent_transcriptions,
          appended |-> appended]
    ELSE LET translation == IF outcome = "fallback" THEN "" ELSE Translate(text)
             result == TranscriptionResult("en", text, translation, TRUE)
         IN  [result |-> result,
              window |-> AddToContext(recent_transcriptions, result),
              appended |-> Append(appended, result)]

\* `self.recent_transcriptions[-5:]`
PromptEntries == 5

\* (a context made of the oldest entries of the window)
_build_context_oldest(window) ==
    IF window = <<>>
    THEN [start |-> TRUE, parts |-> <<>>]
    ELSE LET last == IF Len(window) > PromptEntries THEN PromptEntries ELSE Len(window)
             context_items == SubSeq(window, 1, last)
         IN  [start |-> FALSE,
              parts |-> [i \in 1..Len(context_items) |->
                            [ago |-> Len(context_items) - i + 1,
                             original_text |-> context_items[i].original_text,
                             chinese_translation |-> context_items[i].chinese_translation]]]

\* _build_context(): the fixed start-of-conversation text for an empty window,
\* else one part per entry of recent_transcriptions[-5:], in list order, each
\* headed by its distance from the end and holding the original and the
\* translation (an empty translation is left out of the text)
_build_context(window) ==
    IF window = <<>>
    THEN [start |-> TRUE, parts |-> <<>>]
    ELSE LET first == IF Len(window) > PromptEntries
                      THEN Len(window) - PromptEntries + 1 ELSE 1
             context_items == SubSeq(window, first, Len(window))
         IN  [start |-> FALSE,
              parts |-> [i \in 1..Len(context_items) |->
                            [ago |-> Len(context_items) - i + 1,
                             original_text |-> context_items[i].original_text,
                             chinese_translation |-> context_items[i].chinese_translation]]]

\* `context` once the consumer is where `task` says: a call that begins builds it
ContextAfter(task, window) ==
    IF task = "inflight" THEN _build_context(window) ELSE prompt_context

\* (a consumer that drops the None sentinel and goes on waiting)
TakeItem_deaf(queue) ==
    IF Head(queue).is_none
    THEN [task |-> "waiting", inflight |-> "", queue |-> Tail(queue)]
    ELSE [task |-> "inflight", inflight |-> Head(queue).text, queue |-> Tail(queue)]

\* (a consumer that takes the newest entry instead of the oldest)
TakeItem_newest(queue) ==
    IF queue[Len(queue)].is_none
    THEN [task |-> "done", inflight |-> "", queue |-> SubSeq(queue, 1, Len(queue) - 1)]
    ELSE [task |-> "inflight", inflight |-> queue[Len(queue)].text,
          queue |-> SubSeq(queue, 1, Len(queue) - 1)]

\* _polish_processor takes the head of a non-empty queue: None ends it
TakeItem(queue) ==
    IF Head(queue).is_none
    THEN [task |-> "done", inflight |-> "", queue |-> Tail(queue)]
    ELSE [task |-> "inflight", inflight |-> Head(queue).text, queue |-> Tail(queue)]

\* _polish_processor at `while self.is_running:` and the queue.get() after it
LoopTop(queue) ==
    IF ~is_running
    THEN [task |-> "done", inflight |-> "", queue |-> queue]
    ELSE IF queue = <<>>
    THEN [task |-> "waiting", inflight |-> "", queue |-> queue]
    ELSE TakeItem(queue)

\* the task created by start() runs for the first time
_polish_processor_start ==
    /\ polish_task = "created"
    /\ polish_task' = LoopTop(polish_queue).task
    /\ inflight' = LoopTop(polish_queue).inflight
    /\ polish_queue' = LoopTop(polish_queue).queue
    /\ prompt_context' = ContextAfter(LoopTop(polish_queue).task, recent_transcriptions)
    /\ UNCHANGED <<interim_results, appVars, captureVars, stop_log, provider_writes, last_fragment,
                   sessionVars, aggVars, recent_transcriptions,
                   appended, loopVars, poolVars, outVars, audioVars, ghostVars,
                   caller, now>>

\* `await self.polish_queue.get()` returns
_polish_processor_get ==
    /\ polish_task = "waiting"
    /\ polish_queue # <<>>
    /\ polish_task' = TakeItem(polish_queue).task
    /\ inflight' = TakeItem(polish_queue).inflight
    /\ polish_queue' = TakeItem(polish_queue).queue
    /\ prompt_context' = ContextAfter(TakeItem(polish_queue).task, recent_transcriptions)
    /\ UNCHANGED <<interim_results, appVars, captureVars, stop_log, provider_writes, last_fragment,
                   sessionVars, aggVars, recent_transcriptions,
                   appended, loopVars, poolVars, outVars, audioVars, ghostVars,
                   caller, now>>

\* the outstanding polish call ends; the result is emitted, the loop goes on
_polish_processor_result(outcome) ==
    /\ polish_task = "inflight"
    /\ recent_transcriptions' = _polish_transcription(inflight, outcome).window
    /\ appended' = _polish_transcription(inflight, outcome).appended
    /\ _transcription_callback(_polish_transcription(inflight, outcome).result)
    /\ polish_task' = LoopTop(polish_queue).task
    /\ inflight' = LoopTop(polish_queue).inflight
    /\ polish_queue' = LoopTop(polish_queue).queue
    /\ prompt_context' = ContextAfter(LoopTop(polish_queue).task,
                                      _polish_transcription(inflight, outcome).window)
    /\ last_outcome' = outcome
    /\ UNCHANGED <<interim_results, appVars, captureVars, stop_log, provider_writes, last_fragment,
                   sessionVars, aggVars, loopVars, poolVars,
                   audioVars, pre_stop, loops_since_failure, failed_attempts,
                   exhausted, successes, starts, ctx_calls, ctx_faults, caller, now>>

\* (a consumer whose except clause is outside the loop: a fault ends the task)
AfterFault_exits(queue) == [task |-> "done", inflight |-> "", queue |-> queue]

\* the except clause is inside `while self.is_running:`: after a fault the
\* loop goes back to its condition
AfterFault(queue) == LoopTop(queue)

\* the outstanding polish call ends and the transcription callback raises
\* after it has stored the translation (update_subtitle fails): the except
\* clause of _polish_processor reports it
_polish_processor_raises(outcome) ==
    /\ polish_task = "inflight"
    /\ recent_transcriptions' = _polish_transcription(inflight, outcome).window
    /\ appended' = _polish_transcription(inflight, outcome).appended
    /\ emitted' = Append(emitted, _polish_transcription(inflight, outcome).result)
    /\ last_chinese_translation' =
          LastTranslationAfter(_polish_transcription(inflight, outcome).result)
    /\ errors' = Append(errors, "polish failed")
    /\ displayed' = Append(displayed, SubtitleUpdate("Error", "polish failed", "5.0"))
    /\ polish_task' = AfterFault(polish_queue).task
    /\ inflight' = AfterFault(polish_queue).inflight
    /\ polish_queue' = AfterFault(polish_queue).queue
    /\ prompt_context' = ContextAfter(AfterFault(polish_queue).task,
                                      _polish_transcription(inflight, outcome).window)
    /\ last_outcome' = outcome
    /\ UNCHANGED <<interim_results, appVars, captureVars, stop_log, provider_writes, last_fragment,
                   sessionVars, aggVars, loopVars, poolVars,
                   audioVars, pre_stop, loops_since_failure, failed_attempts,
                   exhausted, successes, starts, ctx_calls, ctx_faults, caller, now>>

\* ------------------------------------------------------------------------
\* Time
\* ------------------------------------------------------------------------
Tick ==
    /\ now < translation_threshold + MaxTicks
    /\ now' = now + 1
    /\ UNCHANGED <<interim_results, appVars, captureVars, stop_log, provider_writes, last_fragment,
                   sessionVars, aggVars, polishVars, loopVars,
                   poolVars, outVars, audioVars, ghostVars, caller>>

\* ------------------------------------------------------------------------
\* The session
\* ------------------------------------------------------------------------
Next ==
    \/ \E ok \in BOOLEAN : start(ok) /\ UNCHANGED appVars
    \/ \E ok \in BOOLEAN : restart(ok) /\ UNCHANGED appVars
    \/ stop /\ UNCHANGED appVars
    \/ stop_return /\ UNCHANGED appVars
    \/ \E raises \in BOOLEAN : send_audio(raises) /\ UNCHANGED <<appVars, captureVars>>
    \/ \E late \in BOOLEAN : _on_open(late)
    \/ \E late \in BOOLEAN : _on_error(late)
    \/ \E late \in BOOLEAN : _on_close(late)
    \/ _reconnect
    \/ \E ok \in BOOLEAN : _reconnect_wake(ok)
    \/ \E text \in {"", FragText(Len(frag_log) + 1)}, is_final \in BOOLEAN : _on_transcript(text, is_final)
    \/ _queue_for_polish
    \/ _polish_processor_start
    \/ _polish_processor_get
    \/ \E outcome \in PolishOutcomes : _polish_processor_result(outcome)
    \/ Tick

\* the whole program
Spec == Init /\ [][Next]_vars

\* The session without transcripts: connection life cycle, reconnection,
\* restart, audio
SessionNext ==
    \/ \E ok \in BOOLEAN : start(ok) /\ UNCHANGED appVars
    \/ \E ok \in BOOLEAN : restart(ok) /\ UNCHANGED appVars
    \/ stop /\ UNCHANGED appVars
    \/ stop_return /\ UNCHANGED appVars
    \/ \E raises \in BOOLEAN : send_audio(raises) /\ UNCHANGED <<appVars, captureVars>>
    \/ \E late \in BOOLEAN : _on_open(late)
    \/ \E late \in BOOLEAN : _on_error(late)
    \/ \E late \in BOOLEAN : _on_close(late)
    \/ _reconnect
    \/ \E ok \in BOOLEAN : _reconnect_wake(ok)
    \/ _polish_processor_start
    \/ _polish_processor_get

SessionSpec == Init /\ [][SessionNext]_vars

\* The pipeline of one session whose recognizer, once lost, is not reached
\* again: transcripts, polish stage, reconnection until it gives up, stop
PipelineNext ==
    \/ \E ok \in BOOLEAN : start(ok) /\ UNCHANGED appVars
    \/ stop /\ UNCHANGED appVars
    \/ stop_return /\ UNCHANGED appVars
    \/ _on_open(FALSE)
    \/ _on_error(FALSE)
    \/ _on_close(FALSE)
    \/ _reconnect
    \/ _reconnect_wake(FALSE)
    \/ \E text \in {"", FragText(Len(frag_log) + 1)}, is_final \in BOOLEAN : _on_transcript(text, is_final)
    \/ _queue_for_polish
    \/ _polish_processor_start
    \/ _polish_processor_get
    \/ \E outcome \in PolishOutcomes : _polish_processor_result(outcome)
    \/ Tick

PipelineSpec == Init /\ [][PipelineNext]_vars

\* The event loop runs every coroutine that is ready (the consumer task, the
\* caller of stop()), and a polish call that is outstanding returns
PipelineFairness ==
    /\ WF_vars(_polish_processor_start)
    /\ WF_vars(_polish_processor_get)
    /\ WF_vars(\E outcome \in PolishOutcomes : _polish_processor_result(outcome))
    /\ WF_vars(stop_return /\ UNCHANGED appVars)

PipelineFair == PipelineSpec /\ PipelineFairness

\* ------------------------------------------------------------------------
\* The context window alone: _polish_transcription called MaxCtxCalls times
\* ------------------------------------------------------------------------
polish_direct(outcome) ==
    /\ ctx_calls < MaxCtxCalls
    /\ ctx_calls' = ctx_calls + 1
    /\ outcome # "json" => ctx_faults < MaxCtxFaults
    /\ ctx_faults' = IF outcome # "json" THEN ctx_faults + 1 ELSE ctx_faults
    /\ recent_transcriptions' =
          _polish_transcription(FragText(ctx_calls + 1), outcome).window
    /\ appended' = _polish_transcription(FragText(ctx_calls + 1), outcome).appended
    /\ prompt_context' = _build_context(recent_transcriptions)
    /\ last_outcome' = outcome
    /\ UNCHANGED <<interim_results, appVars, captureVars, stop_log, provider_writes, last_fragment,
                   sessionVars, aggVars, polish_queue, polish_task,
                   inflight, loopVars, poolVars, outVars, audioVars, pre_stop,
                   loops_since_failure, failed_attempts, exhausted, successes,
                   starts, caller, now>>

ContextNext == \E outcome \in PolishOutcomes : polish_direct(outcome)

ContextSpec == Init /\ [][ContextNext]_vars

\* ------------------------------------------------------------------------
\* MacSystemAudioCapture (audio_capture.py)
\* ------------------------------------------------------------------------
\* A _capture_loop thread is opening (before the input stream is open),
\* streaming (inside the `with sd.InputStream`), or done.
ThreadStates == {"opening", "streaming", "done"}

\* self.capture_thread is the thread started last
HeldThreadAlive ==
    capture_threads # <<>> /\ capture_threads[Len(capture_threads)] # "done"

\* an input stream is open and delivers blocks
\* MacSystemAudioCapture(sample_rate=16000, channels=1, ...)
sample_rate == 16000

channels == 1

\* _capture_loop: 2 channels are captured from a 48 kHz device
capture_channels == IF device_sample_rate = 48000 THEN 2 ELSE channels

\* _capture_loop: int(capture_sample_rate * self.chunk_duration), the number
\* of frames of every chunk the stream delivers
blocksize == (device_sample_rate * chunk_duration) \div TicksPerSecond

\* the 3:1 step is taken for a 48 kHz device and a 16 kHz target only
Downsamples == device_sample_rate = 48000 /\ sample_rate = 16000

\* a variant where the 3:1 step leaves the samples as they are
resample_poly_skipped(n) == n

\* length of scipy.signal.resample_poly(x, up=1, down=3) for n samples:
\* n // 3 + bool(n % 3)
resample_poly(n) == n \div 3 + (IF n % 3 = 0 THEN 0 ELSE 1)

\* audio_callback, the chunk put into the queue for an input of `frames`
\* frames: two channels are averaged into one, any other number of channels
\* is kept; the 3:1 step; int16, two bytes a sample
audio_int16(frames) ==
    LET mono == IF capture_channels = 2 THEN frames ELSE frames * capture_channels
        samples == IF Downsamples THEN resample_poly(mono) ELSE mono
    IN  [frames |-> frames,
         channels |-> capture_channels,
         rate |-> IF Downsamples THEN device_sample_rate \div 3 ELSE device_sample_rate,
         samples |-> samples,
         bytes |-> 2 * samples]

Streaming == \E i \in 1..Len(capture_threads) : capture_threads[i] = "streaming"

\* start_capture() raises ValueError: no matching device
StartCaptureRaises(found) == ~is_recording /\ ~found

\* found: find_device_id() returned a device
start_capture(found) ==
    /\ capture_caller = "idle"
    /\ IF is_recording \/ ~found
       THEN UNCHANGED <<is_recording, capture_threads>>
       ELSE /\ Len(capture_threads) < MaxCaptureStarts
            /\ is_recording' = TRUE
            /\ capture_threads' = Append(capture_threads, "opening")
    /\ UNCHANGED <<audio_queue, in_callback, capture_caller, last_stop_capture, chunks,
                   deviceVars>>

\* _capture_loop up to the `while self.is_recording`; ok: the stream opened
_capture_loop_open(i, ok) ==
    /\ capture_threads[i] = "opening"
    /\ IF ok
       THEN /\ capture_threads' = [capture_threads EXCEPT ![i] = "streaming"]
            /\ is_recording' = is_recording
       ELSE /\ capture_threads' = [capture_threads EXCEPT ![i] = "done"]
            /\ is_recording' = FALSE
    /\ device_sample_rate' = default_samplerate
    /\ UNCHANGED <<audio_queue, in_callback, capture_caller, last_stop_capture, chunks,
                   default_samplerate, chunk_duration, last_chunk, transcriberVars, appVars>>

\* `while self.is_recording` found False: the stream is closed (which waits for
\* the callback under way) and the thread ends
_capture_loop_exit(i) ==
    /\ capture_threads[i] = "streaming"
    /\ ~is_recording
    /\ in_callback = 0
    /\ capture_threads' = [capture_threads EXCEPT ![i] = "done"]
    /\ UNCHANGED <<is_recording, audio_queue, in_callback, capture_caller, last_stop_capture, chunks,
                   deviceVars, transcriberVars, appVars>>

\* audio_callback up to `if self.is_recording:` (stream thread)
audio_callback ==
    /\ Streaming
    /\ chunks < MaxChunks
    /\ chunks' = chunks + 1
    /\ in_callback' = IF is_recording THEN in_callback + 1 ELSE in_callback
    /\ UNCHANGED <<is_recording, capture_threads, audio_queue, capture_caller, last_stop_capture,
                   deviceVars, transcriberVars, appVars>>

\* audio_callback: self.audio_queue.put(...) on a queue.Queue() without maxsize
audio_callback_put ==
    /\ in_callback > 0
    /\ in_callback' = in_callback - 1
    /\ audio_queue' = audio_queue + 1
    /\ last_chunk' = audio_int16(blocksize)
    /\ UNCHANGED <<is_recording, capture_threads, capture_caller, last_stop_capture, chunks,
                   default_samplerate, chunk_duration, device_sample_rate,
                   transcriberVars, appVars>>

\* stop_capture() up to capture_thread.join(timeout=2.0)
stop_capture ==
    /\ capture_caller = "idle"
    /\ IF ~is_recording
       THEN /\ last_stop_capture' = "returned"
            /\ UNCHANGED <<is_recording, capture_caller>>
       ELSE /\ is_recording' = FALSE
            /\ capture_caller' = "joining"
            /\ last_stop_capture' = "joining"
    /\ UNCHANGED <<capture_threads, audio_queue, in_callback, chunks, deviceVars>>

\* stop_capture(): the join returns (the thread ended, or the 2.0 s are over)
\* and the queue is cleared
stop_capture_join(timed_out) ==
    /\ capture_caller = "joining"
    /\ timed_out = HeldThreadAlive
    /\ audio_queue' = 0
    /\ capture_caller' = "idle"
    /\ last_stop_capture' = "stopped"
    /\ UNCHANGED <<is_recording, capture_threads, in_callback, chunks, deviceVars>>

\* get_audio_data(timeout=0.1) returns a chunk
get_audio_data ==
    /\ audio_queue > 0
    /\ audio_queue' = audio_queue - 1
    /\ UNCHANGED <<is_recording, capture_threads, in_callback, capture_caller, last_stop_capture, chunks,
                   deviceVars>>

\* The capture component on its own
CaptureNext ==
    \/ \E found \in BOOLEAN : start_capture(found) /\ UNCHANGED <<transcriberVars, appVars>>
    \/ \E i \in 1..Len(capture_threads), ok \in BOOLEAN : _capture_loop_open(i, ok)
    \/ \E i \in 1..Len(capture_threads) : _capture_loop_exit(i)
    \/ audio_callback
    \/ audio_callback_put
    \/ stop_capture /\ UNCHANGED <<transcriberVars, appVars>>
    \/ \E timed_out \in BOOLEAN : stop_capture_join(timed_out) /\ UNCHANGED <<transcriberVars, appVars>>
    \/ get_audio_data /\ UNCHANGED <<transcriberVars, appVars>>

CaptureSpec == Init /\ [][CaptureNext]_vars

\* The capture component with any device
NormalizerSpec == NormalizerInit /\ [][CaptureNext]_vars

\* ------------------------------------------------------------------------
\* DeepgramLiveSubtitle (main.py): _async_main, _audio_processing_loop,
\* _async_cleanup on the event loop, _cleanup on the main thread
\* ------------------------------------------------------------------------
\* _audio_processing_loop: created (not run yet), running (in its while loop),
\* joining (in the stop_capture() of its finally), done, failed (ended with an
\* exception), cancelled (cancelled before it ran)
AudioTaskStates == {"created", "running", "joining", "done", "failed", "cancelled"}

banner == SubtitleUpdate("Deepgram Live Subtitle Started", "[started-zh]", "5.0")

\* (an _async_main that creates the audio task whatever initialize() did)
AudioTaskAfterInit_always(ok) == "created"

\* `self.audio_task = asyncio.create_task(...)` is reached only if initialize()
\* did not raise
AudioTaskAfterInit(ok) == IF ok THEN "created" ELSE None

\* _async_main up to its first sleep: initialize() (which ends with
\* transcriber.start()), is_running = True, the audio task is created;
\* if start() raises, the finally block is next
_async_main(ok) ==
    /\ app_pc = "new"
    /\ start(ok)
    /\ audio_task' = AudioTaskAfterInit(ok)
    /\ app_is_running' = ok
    /\ app_pc' = IF ok THEN "started" ELSE "cleanup"

\* _async_main after the sleep: the start message is shown
_async_main_banner ==
    /\ app_pc = "started"
    /\ app_pc' = "serving"
    /\ last_chinese_translation' = banner.chinese_text
    /\ displayed' = Append(displayed, banner)
    /\ UNCHANGED <<interim_results, sessionVars, aggVars, polishVars, loopVars,
                   poolVars, emitted, errors, audioVars, ghostVars, caller, now,
                   stop_log, provider_writes, last_fragment, captureVars,
                   app_is_running, audio_task>>

\* _async_main: `while self.is_running` found False
_async_main_exit ==
    /\ app_pc = "serving"
    /\ ~app_is_running
    /\ app_pc' = "cleanup"
    /\ UNCHANGED <<transcriberVars, captureVars, app_is_running, audio_task>>

\* DeepgramLiveSubtitle._cleanup (main thread): self.is_running = False
_cleanup ==
    /\ app_is_running
    /\ app_is_running' = FALSE
    /\ UNCHANGED <<transcriberVars, captureVars, app_pc, audio_task>>

\* the audio task runs for the first time: start_capture()
_audio_processing_loop(found) ==
    /\ audio_task = "created"
    /\ start_capture(found)
    /\ audio_task' = IF StartCaptureRaises(found) THEN "failed" ELSE "running"
    /\ UNCHANGED <<transcriberVars, app_pc, app_is_running>>

\* one turn of the loop that got a chunk: send_audio(audio_data)
_audio_processing_loop_forward(raises) ==
    /\ audio_task = "running"
    /\ app_is_running
    /\ get_audio_data
    /\ send_audio(raises)
    /\ UNCHANGED appVars

\* the loop ends (is_running False, or cancelled at its sleep): finally
\* stop_capture()
_audio_processing_loop_finally ==
    /\ audio_task = "running"
    /\ ~app_is_running
    /\ stop_capture
    /\ audio_task' = IF is_recording THEN "joining" ELSE "done"
    /\ UNCHANGED <<transcriberVars, app_pc, app_is_running>>

_audio_processing_loop_joined(timed_out) ==
    /\ audio_task = "joining"
    /\ stop_capture_join(timed_out)
    /\ audio_task' = "done"
    /\ UNCHANGED <<transcriberVars, app_pc, app_is_running>>

\* _async_cleanup up to `await self.audio_task`
_async_cleanup ==
    /\ app_pc = "cleanup"
    /\ app_is_running' = FALSE
    /\ audio_task' = IF audio_task = "created" THEN "cancelled" ELSE audio_task
    /\ app_pc' = "await_audio"
    /\ UNCHANGED <<transcriberVars, captureVars>>

\* `await self.audio_task` raises what the task raised: only CancelledError
\* is caught
_async_cleanup_raise ==
    /\ app_pc = "await_audio"
    /\ audio_task = "failed"
    /\ app_pc' = "aborted"
    /\ UNCHANGED <<transcriberVars, captureVars, app_is_running, audio_task>>

\* `await self.transcriber.stop()` is called
_async_cleanup_stop ==
    /\ app_pc = "await_audio"
    /\ audio_task \in {None, "done", "cancelled"}
    /\ stop
    /\ app_pc' = IF polish_task \notin {None, "done"} THEN "stop_transcriber"
                 ELSE "stop_capture"
    /\ UNCHANGED <<app_is_running, audio_task>>

_async_cleanup_stopped ==
    /\ app_pc = "stop_transcriber"
    /\ stop_return
    /\ app_pc' = "stop_capture"
    /\ UNCHANGED <<app_is_running, audio_task>>

\* `self.audio_capture.stop_capture()`: by now the audio task has ended, and
\* its finally block has stopped the capture it started, so that this call
\* returns at `if not self.is_recording`
_async_cleanup_capture ==
    /\ app_pc = "stop_capture"
    /\ ~is_recording
    /\ stop_capture
    /\ app_pc' = "exited"
    /\ UNCHANGED <<transcriberVars, app_is_running, audio_task>>

\* The application: main.py driving the recognizer session and the capture
AppNext ==
    \/ \E ok \in BOOLEAN : _async_main(ok)
    \/ _async_main_banner
    \/ _async_main_exit
    \/ _cleanup
    \/ \E found \in BOOLEAN : _audio_processing_loop(found)
    \/ \E raises \in BOOLEAN : _audio_processing_loop_forward(raises)
    \/ _audio_processing_loop_finally
    \/ \E timed_out \in BOOLEAN : _audio_processing_loop_joined(timed_out)
    \/ _async_cleanup
    \/ _async_cleanup_raise
    \/ _async_cleanup_stop
    \/ _async_cleanup_stopped
    \/ _async_cleanup_capture
    \/ \E i \in 1..Len(capture_threads), ok \in BOOLEAN : _capture_loop_open(i, ok)
    \/ \E i \in 1..Len(capture_threads) : _capture_loop_exit(i)
    \/ audio_callback
    \/ audio_callback_put
    \/ _on_open(FALSE)
    \/ _on_error(FALSE)
    \/ _reconnect
    \/ \E ok \in BOOLEAN : _reconnect_wake(ok)
    \/ _polish_processor_start
    \/ _polish_processor_get

AppSpec == Init /\ [][AppNext]_vars

\* ------------------------------------------------------------------------
\* The two components under a caller that starts and stops them in any order
\* ------------------------------------------------------------------------
LifecycleNext ==
    \/ \E ok \in BOOLEAN : start(ok) /\ UNCHANGED appVars
    \/ \E ok \in BOOLEAN : restart(ok) /\ UNCHANGED appVars
    \/ stop /\ UNCHANGED appVars
    \/ stop_return /\ UNCHANGED appVars
    \/ _on_open(FALSE)
    \/ _on_error(FALSE)
    \/ _reconnect
    \/ \E ok \in BOOLEAN : _reconnect_wake(ok)
    \/ _polish_processor_start
    \/ _polish_processor_get
    \/ \E found \in BOOLEAN : start_capture(found) /\ UNCHANGED <<transcriberVars, appVars>>
    \/ \E i \in 1..Len(capture_threads), ok \in BOOLEAN : _capture_loop_open(i, ok)
    \/ \E i \in 1..Len(capture_threads) : _capture_loop_exit(i)
    \/ stop_capture /\ UNCHANGED <<transcriberVars, appVars>>
    \/ \E timed_out \in BOOLEAN :
           stop_capture_join(timed_out) /\ UNCHANGED <<transcriberVars, appVars>>

LifecycleSpec == Init /\ [][LifecycleNext]_vars

\* ------------------------------------------------------------------------
\* What reaches the display: the application started, the start message,
\* the fragments and their polish, a reconnection
\* ------------------------------------------------------------------------
DisplayNext ==
    \/ _async_main(TRUE)
    \/ _async_main_banner
    \/ _on_open(FALSE)
    \/ _on_error(FALSE)
    \/ _reconnect
    \/ \E ok \in BOOLEAN : _reconnect_wake(ok)
    \/ \E text \in {"", FragText(Len(frag_log) + 1)}, is_final \in BOOLEAN : _on_transcript(text, is_final)
    \/ _queue_for_polish
    \/ _polish_processor_start
    \/ _polish_processor_get
    \/ \E outcome \in PolishOutcomes : _polish_processor_result(outcome)
    \/ Tick

DisplaySpec == Init /\ [][DisplayNext]_vars

\* ------------------------------------------------------------------------
\* The aggregator with transcript events of every kind: fragments, events
\* without a result, events whose handling raises
\* ------------------------------------------------------------------------
AggregatorNext ==
    \/ start(TRUE) /\ UNCHANGED appVars
    \/ _on_open(FALSE)
    \/ \E text \in {"", FragText(Len(frag_log) + 1)}, is_final \in BOOLEAN : _on_transcript(text, is_final)
    \/ _on_transcript_no_result
    \/ \E at \in RaisePoints : _on_transcript_raises(FragText(Len(frag_log) + 1), at)
    \/ _queue_for_polish
    \/ _polish_processor_start
    \/ _polish_processor_get
    \/ \E outcome \in PolishOutcomes : _polish_processor_result(outcome)
    \/ Tick

AggregatorSpec == Init /\ [][AggregatorNext]_vars

\* ------------------------------------------------------------------------
\* The reconnection with the provider thread running beside the event loop:
\* an event of a connection may be handled while _reconnect is between two
\* of its statements
\* ------------------------------------------------------------------------
ReconnectNext ==
    \/ \E ok \in BOOLEAN : start(ok) /\ UNCHANGED appVars
    \/ stop /\ UNCHANGED appVars
    \/ stop_return /\ UNCHANGED appVars
    \/ _on_open(FALSE)
    \/ _on_error(FALSE)
    \/ _on_close(FALSE)
    \/ _reconnect
    \/ \E ok \in BOOLEAN : _reconnect_wake(ok)
    \/ _reconnect_wake_interrupted
    \/ _polish_processor_start
    \/ _polish_processor_get

ReconnectSpec == Init /\ [][ReconnectNext]_vars

\* ------------------------------------------------------------------------
\* One object stopped and started again, with its transcripts and its polish
\* stage; the connection is not lost
\* ------------------------------------------------------------------------
RestartNext ==
    \/ start(TRUE) /\ UNCHANGED appVars
    \/ restart(TRUE) /\ UNCHANGED appVars
    \/ stop /\ UNCHANGED appVars
    \/ stop_return /\ UNCHANGED appVars
    \/ _on_open(FALSE)
    \/ \E is_final \in BOOLEAN : _on_transcript(FragText(Len(frag_log) + 1), is_final)
    \/ _queue_for_polish
    \/ _polish_processor_start
    \/ _polish_processor_get
    \/ \E outcome \in PolishOutcomes : _polish_processor_result(outcome)
    \/ Tick

RestartSpec == Init /\ [][RestartNext]_vars

\* ------------------------------------------------------------------------
\* The polish consumer with a transcription callback that may raise
\* ------------------------------------------------------------------------
ConsumerNext ==
    \/ start(TRUE) /\ UNCHANGED appVars
    \/ stop /\ UNCHANGED appVars
    \/ stop_return /\ UNCHANGED appVars
    \/ _on_open(FALSE)
    \/ \E is_final \in BOOLEAN : _on_transcript(FragText(Len(frag_log) + 1), is_final)
    \/ _queue_for_polish
    \/ _polish_processor_start
    \/ _polish_processor_get
    \/ \E outcome \in PolishOutcomes : _polish_processor_result(outcome)
    \/ \E outcome \in PolishOutcomes : _polish_processor_raises(outcome)
    \/ Tick

ConsumerSpec == Init /\ [][ConsumerNext]_vars

\* ========================================================================
\* Properties
\* ========================================================================
Min(a, b) == IF a < b THEN a ELSE b

\* the texts handed to the polish stage that have not come out of it yet
PendingSubmissions ==
    {scheduled_polish[i].text : i \in 1..Len(scheduled_polish)} \cup InPolishStage

\* the texts for which a polished (is_final) result was emitted
PolishedTexts ==
    {emitted[i].original_text : i \in {j \in 1..Len(emitted) : emitted[j].is_final}}

\* the fragment a step of _on_transcript has just handled
Arrived == Len(frag_log') = Len(frag_log) + 1
NewFragment == frag_log'[Len(frag_log')]

\* ------------------------------------------------------------------------
\* C2. Interim throttle: an interim fragment (interim mode on) that arrives
\* less than 1.0 s after the last polish submission is not submitted; one
\* that arrives at least 1.0 s after it is submitted exactly once and the
\* timestamp becomes its arrival time; a final fragment always is submitted
\* and resets the timestamp, so that the timestamp always is the time of the
\* last submission.
\* ------------------------------------------------------------------------
C2_InterimStep ==
    (Arrived /\ interim_results /\ ~NewFragment.is_final) =>
        IF now - last_submission_at < 1 * Second
        THEN /\ scheduled_polish' = scheduled_polish
             /\ last_translation_time' = last_translation_time
        ELSE /\ scheduled_polish' = Append(scheduled_polish, Item(NewFragment.text))
             /\ last_translation_time' = now

C2_FinalStep ==
    (Arrived /\ NewFragment.is_final) =>
        /\ scheduled_polish' = Append(scheduled_polish, Item(NewFragment.text))
        /\ last_translation_time' = now

C2_InterimThrottle ==
    /\ [](last_translation_time = last_submission_at)
    /\ [][C2_InterimStep /\ C2_FinalStep]_vars

\* an interim fragment arrived less than 1.0 s after a final one and was not submitted
C2_Witness ==
    /\ interim_results
    /\ Len(frag_log) = 2
    /\ frag_log[1].is_final
    /\ ~frag_log[2].is_final
    /\ pending_text = frag_log[2].text
    /\ now - last_translation_time < 1 * Second
    /\ frag_log[2].text \notin PendingSubmissions \cup PolishedTexts
    /\ frag_log[1].text \in PendingSubmissions \cup PolishedTexts

\* ------------------------------------------------------------------------
\* C3. recent_transcriptions never holds more than 40 entries, and it always
\* is the most recent entries appended, in the order they were appended (the
\* entry dropped for a 41st is the oldest).
\* ------------------------------------------------------------------------
C3_ContextWindow ==
    /\ Len(recent_transcriptions) <= 40
    /\ Len(recent_transcriptions) = Min(40, Len(appended))
    /\ recent_transcriptions =
          SubSeq(appended, Len(appended) - Len(recent_transcriptions) + 1, Len(appended))

\* more than 40 results were appended, the oldest ones are gone
C3_Witness ==
    /\ Len(appended) > 40
    /\ Len(recent_transcriptions) = 40
    /\ recent_transcriptions[1] = appended[Len(appended) - 39]
    /\ recent_transcriptions[1] # appended[1]

\* ------------------------------------------------------------------------
\* C4. The session becomes Failed after exactly 5 consecutive failed
\* reconnection attempts and not after fewer: it is then marked not running,
\* the error callback gets the fatal error, and every later send_audio passes
\* nothing to the connection.
\* ------------------------------------------------------------------------
C4_FailedStep ==
    (exhausted' /\ ~exhausted) =>
        /\ failed_attempts' = 5
        /\ ~is_running'
        /\ errors' = Append(errors, "cannot reconnect")

C4_FifthFailure ==
    (failed_attempts = 4 /\ failed_attempts' = 5) => exhausted'

C4_SendAfterFailed ==
    (exhausted /\ send_calls' = send_calls + 1) => audio_sent' = audio_sent

C4_Exhaustion == [][C4_FailedStep /\ C4_FifthFailure /\ C4_SendAfterFailed]_vars

\* ------------------------------------------------------------------------
\* C5. A reconnection attempt that succeeds sets the attempt counter to 0,
\* clears the reconnecting guard and passes exactly one "[Reconnected]"
\* result to the transcription callback; a failure after it gets 5 attempts
\* again: the session does not give up before 5 more attempts have failed.
\* ------------------------------------------------------------------------
C5_SuccessStep ==
    (successes' = successes + 1) =>
        /\ reconnect_attempts' = 0
        /\ ~is_reconnecting'
        /\ Len(emitted') = Len(emitted) + 1
        /\ SubSeq(emitted', 1, Len(emitted)) = emitted
        /\ emitted'[Len(emitted')].original_text = "[Reconnected]"
        /\ emitted'[Len(emitted')].detected_language = "system"
        /\ emitted'[Len(emitted')].is_final

C5_FullBudget ==
    (successes > 0 /\ exhausted' /\ ~exhausted) => failed_attempts' >= 5

C5_ReconnectSuccess == [][C5_SuccessStep /\ C5_FullBudget]_vars

\* ------------------------------------------------------------------------
\* C6. send_audio passes the chunk to the connection exactly when a
\* connection exists, the session is running and the readiness flag is set;
\* otherwise the chunk is dropped: nothing is sent, neither callback is
\* called, nothing is displayed and no field of the session changes.
\* ------------------------------------------------------------------------
C6_SendStep ==
    (send_calls' = send_calls + 1) =>
        IF connection # None /\ is_running /\ connection_ready
        THEN audio_sent' = audio_sent + 1
        ELSE /\ audio_sent' = audio_sent
             /\ errors' = errors
             /\ emitted' = emitted
             /\ displayed' = displayed
             /\ UNCHANGED <<sessionVars, aggVars, polishVars, loopVars>>

C6_SendAudio == [][C6_SendStep]_vars

\* send_audio was called on a running session whose connection had not been
\* opened yet: nothing was sent, nothing was reported
C6_Witness ==
    /\ send_calls = 1
    /\ audio_sent = 0
    /\ is_running
    /\ connection = "pending"
    /\ ~connection_ready
    /\ errors = <<>>
    /\ displayed = <<>>

\* ------------------------------------------------------------------------
\* C7. For one failure of the connection at most one retry loop is entered,
\* whatever the order of its error and close events, and no two retry loops
\* are under way at the same time.
\* ------------------------------------------------------------------------
C7_OneLoopPerFailure ==
    /\ loops_since_failure <= 1
    /\ sleepers <= 1

\* ------------------------------------------------------------------------
\* C8. Once stop() has been called (and start() not again), no connection is
\* opened, no "[Reconnected]" result is emitted and the session holds no open
\* connection, even if a retry loop was scheduled or asleep at that time.
\* ------------------------------------------------------------------------
Stopped == starts > 0 /\ caller \in {"idle", "stopping", "restopped"}

C8_StopStep ==
    (Stopped /\ Stopped') =>
        /\ connection' \notin {"pending", "live"}
        /\ successes' = successes
        /\ IF emitted' = emitted THEN TRUE
           ELSE emitted'[Len(emitted')].original_text # "[Reconnected]"

C8_StopSevers == [][C8_StopStep]_vars

\* ------------------------------------------------------------------------
\* C9. Every text that was in the polish stage (queued, or in the outstanding
\* call) when stop() was called has had its result passed to the
\* transcription callback by the time the polish consumer has returned.
\* ------------------------------------------------------------------------
C9_DrainOnStop ==
    polish_task = "done" => pre_stop \subseteq PolishedTexts

\* ------------------------------------------------------------------------
\* C10. When the polish call of a submission raises, a result with the
\* original text, an empty translation and is_final is passed to the
\* transcription callback, and update_subtitle is called with that text.
\* ------------------------------------------------------------------------
\* the outstanding call ended without appending to the context window
PolishRaised ==
    /\ polish_task = "inflight"
    /\ Len(emitted') = Len(emitted) + 1
    /\ emitted'[Len(emitted')].is_final
    /\ appended' = appended

C10_RaiseStep ==
    PolishRaised =>
        /\ emitted'[Len(emitted')] = TranscriptionResult("en", inflight, "", TRUE)
        /\ Len(displayed') = Len(displayed) + 1
        /\ displayed'[Len(displayed')].original_text = inflight

C10_TranscriptSurvives == [][C10_RaiseStep]_vars

\* ------------------------------------------------------------------------
\* C1. Every non-empty final fragment gets exactly one is_final result at the
\* transcription callback: never two, and once the polish consumer has
\* returned (nothing is emitted for a fragment after that) not zero.
\* ------------------------------------------------------------------------
FinalResults(text) ==
    {j \in 1..Len(emitted) : emitted[j].is_final /\ emitted[j].original_text = text}

FinalFragments == {k \in 1..Len(frag_log) : frag_log[k].is_final}

C1_ExactlyOneFinal ==
    /\ \A k \in FinalFragments : Cardinality(FinalResults(frag_log[k].text)) <= 1
    /\ polish_task = "done" =>
          \A k \in FinalFragments : Cardinality(FinalResults(frag_log[k].text)) = 1

\* ------------------------------------------------------------------------
\* C11. The polish stage is one serial consumer: the texts it has emitted
\* results for, the text of the one outstanding call, the texts queued and
\* the texts handed to the loop, taken in that order, are the submissions in
\* the order they were made, each of them once.
\* ------------------------------------------------------------------------
IsFinalResult(r) == r.is_final
IsItem(i) == ~i.is_none

\* texts of the polished results, in the order they were emitted
PolishedSeq ==
    [j \in 1..Len(SelectSeq(emitted, IsFinalResult)) |->
        SelectSeq(emitted, IsFinalResult)[j].original_text]

\* texts waiting in the polish queue and behind it, oldest first
WaitingSeq ==
    [j \in 1..Len(SelectSeq(polish_queue \o scheduled_polish, IsItem)) |->
        SelectSeq(polish_queue \o scheduled_polish, IsItem)[j].text]

\* the course of the submissions through the stage
StageSeq ==
    PolishedSeq \o (IF polish_task = "inflight" THEN <<inflight>> ELSE <<>>) \o WaitingSeq

\* the position in frag_log of the fragment with this text (0: none)
FragIndex(text) ==
    IF \E k \in 1..Len(frag_log) : frag_log[k].text = text
    THEN CHOOSE k \in 1..Len(frag_log) : frag_log[k].text = text
    ELSE 0

C11_SerialInOrder ==
    /\ polish_task = "inflight" <=> inflight # ""
    /\ \A i \in 1..Len(StageSeq) : FragIndex(StageSeq[i]) > 0
    /\ \A i, j \in 1..Len(StageSeq) :
          i < j => FragIndex(StageSeq[i]) < FragIndex(StageSeq[j])

\* two submissions waited in the queue together and came out in their order
C11_Witness ==
    /\ PolishedSeq = <<FragText(1), FragText(2)>>
    /\ Len(appended) = 2

\* ------------------------------------------------------------------------
\* C12. On shutdown the recognizer connection is closed only after the stop
\* sentinel has been put into the polish queue: a call of stop() that does
\* both never does connection.finish() before polish_queue.put(None).
\* ------------------------------------------------------------------------
C12_ShutdownOrder ==
    \A i, j \in 1..Len(stop_log) :
        (stop_log[i] = "connection.finish" /\ stop_log[j] = "polish_queue.put(None)")
            => j < i

\* the capture was started at some time: a capture thread was created
CaptureStarted == capture_threads # <<>> \/ is_recording

\* start() returned without raising: only then is the polish consumer created
StartSucceeded == starts > 0 /\ polish_task # None

\* start() raised: the error callback was told so
StartFailed == \E i \in 1..Len(errors) : errors[i] = "start failed"

\* C13: audio capture is started, and a chunk is passed to send_audio, only
\* after the recognizer session's start() returned successfully; once start()
\* has failed the capture is never started and no chunk is forwarded.
C13_StartupOrder ==
    /\ (CaptureStarted \/ send_calls > 0 \/ audio_task # None) => StartSucceeded
    /\ StartFailed =>
           (~CaptureStarted /\ send_calls = 0 /\ audio_queue = 0 /\ audio_task = None)

\* start() succeeded, the capture runs and a chunk went through send_audio
C13_Witness == StartSucceeded /\ is_recording /\ send_calls > 0

\* start() failed and the application went through its whole shutdown
C13_WitnessFailed == StartFailed /\ app_pc = "exited"

\* C15: after any sequence of fragments pending_text is the text of the last
\* fragment if that was an interim one with a text (interim mode enabled), and
\* is empty if the last fragment was a final one, whether its text was empty
\* or not.
C15_PendingText ==
    /\ last_fragment.kind = "final" => pending_text = ""
    /\ (interim_results /\ last_fragment.kind = "interim" /\ last_fragment.text # "") =>
           pending_text = last_fragment.text

C16_FragmentStep ==
    (~interim_results /\ frag_log' # frag_log) =>
        /\ pending_text' = ""
        /\ scheduled_polish' = SubmitForPolish(frag_log'[Len(frag_log')].text)
        /\ last_submission_at' = now

\* C16: with interim mode disabled every fragment with a text, marked final by
\* the recognizer or not, is handled as a final one: pending_text is cleared
\* and the fragment is submitted for polish whatever the throttle says.
C16_InterimDisabled == [][C16_FragmentStep]_vars

\* C17: the recognizer callbacks (open, error, close, transcript), which run
\* on the provider's thread, assign no field of the session themselves:
\* every assignment is made by a coroutine they hand to the event loop.
C17_SingleWriter == provider_writes = {}

\* a capacity the audio queue is supposed to have, below the MaxChunks chunks
\* the capture delivers
AudioCapacity == 3

\* C20: the audio queue is bounded: it never holds more than a fixed number
\* of chunks, however slowly get_audio_data takes them out.
C20_BoundedQueue == audio_queue <= AudioCapacity

\* a component that is not started: never started, or stopped by a call of
\* stop() that has returned
TranscriberStopped == caller = "idle"
CaptureStopped == capture_caller = "idle" /\ ~is_recording

\* stop() called on the transcriber while it is stopped
StopAgain == TranscriberStopped /\ caller' # caller /\ starts' = starts

\* stop_capture() called on the capture while it is stopped
StopCaptureAgain ==
    CaptureStopped /\ last_stop_capture' # last_stop_capture

C18_StopStep ==
    /\ StopAgain =>
           (caller' = "restopped" /\ ~is_running' /\ connection' = None)
    /\ StopCaptureAgain =>
           (last_stop_capture' = "returned" /\ CaptureStopped')

\* C18: stop() called on a DeepgramTranscriber that is stopped (a second call,
\* or a call before start) returns at once, with is_running False and no
\* connection held; stop_capture() called on a MacSystemAudioCapture that is
\* not recording returns at once and leaves it not recording.
C18_StopIdempotent == [][C18_StopStep]_vars

\* stop() was called a second time, and stop_capture() as well
C18_Witness ==
    /\ caller = "restopped" /\ starts > 0 /\ polish_task = "done"
    /\ last_stop_capture = "returned" /\ capture_threads # <<>>

\* stop() and stop_capture() were called before any start
C18_WitnessBeforeStart ==
    /\ caller = "restopped" /\ starts = 0
    /\ last_stop_capture = "returned" /\ capture_threads = <<>>

\* stop() is at its `await self.polish_task`
StopWaiting == caller = "stopping"

\* the consumer is blocked in polish_queue.get() with nothing to get
ConsumerBlocked == polish_task = "waiting" /\ polish_queue = <<>>

\* C19: a stop() that waits for the polish consumer returns in the end,
\* whatever the session was doing when it was called, given that a polish
\* call under way returns; while stop() waits the consumer is never left
\* blocked on an empty queue.
C19_StopTerminates ==
    /\ [](StopWaiting => ~ConsumerBlocked)
    /\ StopWaiting ~> (caller = "idle")

\* stop() has returned after waiting for a consumer that had work to do, on a
\* session whose reconnection had been given up
C19_Witness ==
    caller = "idle" /\ polish_task = "done" /\ pre_stop # {} /\ stop_log # <<>>

\* the translations the polish stage has produced so far
PolishedTranslations ==
    {emitted[i].chinese_translation :
        i \in {j \in 1..Len(emitted) :
                  emitted[j].is_final /\ emitted[j].detected_language # "system"}}

\* the update_subtitle calls made for interim results (duration 2.0)
InterimUpdates == {i \in 1..Len(displayed) : displayed[i].duration = "2.0"}

\* C14: an interim result is shown with an empty translation or with a
\* translation the polish stage produced earlier, never with the translation
\* of its own text; the result emitted for an interim fragment has an empty
\* translation.
C14_InterimTranslation ==
    /\ \A i \in InterimUpdates :
           /\ displayed[i].chinese_text \in {""} \cup PolishedTranslations
           /\ displayed[i].chinese_text # Translate(displayed[i].original_text)
    /\ \A i \in 1..Len(emitted) :
           ~emitted[i].is_final => emitted[i].chinese_translation = ""

\* a call of start() that raised
StartRaised == starts' = starts + 1 /\ caller' = "start_failed"

C23_StartStep ==
    /\ StartRaised =>
           /\ errors' = Append(errors, "start failed")
           /\ polish_task' = polish_task
           /\ polish_task' # "created"
    /\ (starts' = starts + 1 /\ ~StartRaised) =>
           (errors' = errors /\ polish_task' = "created")

\* C23: a start() whose connection cannot be opened passes the failure to the
\* error callback exactly once, raises to its caller and creates no polish
\* consumer task; a start() that does not raise reports nothing and creates
\* the task.
C23_StartFailsVisibly == [][C23_StartStep]_vars

\* start() has raised, on a session that had been started and stopped before
C23_Witness == caller = "start_failed" /\ starts > 1 /\ StartFailed

\* the session is not meant to run: the user has stopped it (and not started
\* it again), or the reconnection was given up
NotMeantToRun == Stopped \/ exhausted

C24_EventStep ==
    NotMeantToRun =>
        /\ scheduled_reconnect' <= scheduled_reconnect
        /\ loops_since_failure' <= loops_since_failure
        /\ sleepers' <= sleepers

\* C24: while the session is stopped by the user or has given up, an error or
\* close event (that of the connection stop() tore down included) schedules
\* no reconnection, and a reconnection scheduled earlier starts no loop.
C24_NoReconnectWhenStopped == [][C24_EventStep]_vars

\* the close of the last failed connection has arrived after the session
\* gave up
C24_Witness ==
    exhausted /\ connection = "closed" /\ scheduled_reconnect = 0 /\ sleepers = 0

\* a connection opened after stop() has failed while the session is stopped
C24_WitnessStopped ==
    Stopped /\ connection \in {"errored", "closed"} /\ scheduled_reconnect = 0

\* a connection the recognizer may still have open
ConnectionOpen == connection \in {"pending", "live"}

\* a reconnection attempt stores a fresh connection in self.connection
AttemptOpens == failed_attempts' = failed_attempts + 1 \/ successes' = successes + 1

C25_AttemptStep ==
    /\ AttemptOpens => ~ConnectionOpen
    /\ (sleepers' = sleepers + 1) => connection' = None

\* C25: a reconnection attempt tears the held connection down before its
\* delay and opens the fresh connection after it, so that the fresh
\* connection never takes the place of one that was not finished.
C25_TeardownDelayOpen == [][C25_AttemptStep]_vars

\* the outstanding polish call has ended in this step: its result is emitted
PolishCallEnded ==
    /\ polish_task = "inflight"
    /\ Len(emitted') = Len(emitted) + 1
    /\ emitted'[Len(emitted')].is_final
    /\ emitted'[Len(emitted')].detected_language # "system"

C27_ContextStep ==
    /\ (recent_transcriptions' # recent_transcriptions) =>
           /\ PolishCallEnded
           /\ last_outcome' # "raise"
           /\ recent_transcriptions' =
                  AddToContext(recent_transcriptions, emitted'[Len(emitted')])
    /\ (PolishCallEnded /\ last_outcome' = "raise") =>
           recent_transcriptions' = recent_transcriptions

\* C27: recent_transcriptions changes only when a polish call returns, and
\* then by the result of that call being appended; a polish call that raises
\* leaves it as it was, and so does every other operation (interim emission,
\* reconnection, start, stop).
C27_ContextFrame == [][C27_ContextStep]_vars

\* a polish call has raised after another one had filled the window, and the
\* session was stopped afterwards
C27_Witness ==
    /\ last_outcome = "raise"
    /\ Len(recent_transcriptions) = 1
    /\ caller = "idle" /\ polish_task = "done"

\* the polish service answered: valid JSON, or text that is no valid JSON
\* with or without the translation field in it
Answered == {"json", "extract", "fallback"}

\* the result _polish_transcription makes of an answer for the text in hand
AnswerResult ==
    TranscriptionResult("en", inflight,
                        IF last_outcome' = "fallback" THEN "" ELSE Translate(inflight),
                        TRUE)

C29_AnswerStep ==
    (PolishCallEnded /\ last_outcome' \in Answered) =>
        /\ emitted' = Append(emitted, AnswerResult)
        /\ appended' = Append(appended, AnswerResult)
        /\ recent_transcriptions' = AddToContext(recent_transcriptions, AnswerResult)
        /\ errors' = errors
        /\ (is_running /\ polish_queue = <<>>) => polish_task' = "waiting"

\* C29: a polish response that is no valid JSON is not fatal: the translation
\* is taken from the raw text if the field is in it and is empty otherwise;
\* for a valid response and for both of these exactly one is_final result
\* with the original text is made, appended to recent_transcriptions and
\* emitted, the error callback is not called and the consumer goes on.
C29_ParseErrorsNotFatal == [][C29_AnswerStep]_vars

\* a response without the field was handled after one with it, and nothing
\* was reported as an error
C29_Witness ==
    /\ last_outcome = "fallback"
    /\ Len(appended) = 2
    /\ appended[1].chinese_translation # ""
    /\ appended[2].chinese_translation = ""
    /\ errors = <<>>

\* a call of _polish_transcription begins in this step: made directly, or by
\* the consumer taking an item
DirectCall == ctx_calls' = ctx_calls + 1
CallBegins ==
    DirectCall \/ (polish_task' = "inflight" /\ (polish_task # "inflight" \/ PolishCallEnded))

\* recent_transcriptions as the call that begins finds it, and how the call
\* before it ended
WindowAtCall == IF DirectCall THEN recent_transcriptions ELSE recent_transcriptions'
OutcomeBefore == IF DirectCall THEN last_outcome ELSE last_outcome'
AppendedBefore == IF DirectCall THEN appended ELSE appended'

C28_CallStep ==
    CallBegins =>
        LET parts == prompt_context'.parts
            n == Len(WindowAtCall)
        IN  /\ prompt_context'.start <=> (n = 0)
            /\ Len(parts) = Min(5, n)
            /\ \A i \in 1..Len(parts) :
                   /\ parts[i].original_text =
                          WindowAtCall[n - Len(parts) + i].original_text
                   /\ parts[i].chinese_translation =
                          WindowAtCall[n - Len(parts) + i].chinese_translation
                   /\ parts[i].ago = Len(parts) - i + 1
            /\ (OutcomeBefore \in Answered) =>
                   /\ parts # <<>>
                   /\ parts[Len(parts)].original_text =
                          AppendedBefore[Len(AppendedBefore)].original_text
                   /\ parts[Len(parts)].chinese_translation =
                          AppendedBefore[Len(AppendedBefore)].chinese_translation

\* C28: the context of a polish call is made of the last min(5, size) entries
\* of recent_transcriptions as the call finds it, oldest first; for an empty
\* window it is the fixed start-of-conversation text; and when the call before
\* it returned, its result is the last part of the context.
C28_PromptContext == [][C28_CallStep]_vars

\* a call found more entries than the context takes, and took the last five
C28_Witness ==
    /\ Len(appended) > 6
    /\ Len(prompt_context.parts) = 5
    /\ prompt_context.parts[1].original_text # appended[1].original_text
    /\ last_outcome = "json"

\* a transcript event was skipped in this step: it had no result object, or
\* its transcript was empty
Skipped ==
    /\ last_fragment' # last_fragment
    /\ IF last_fragment'.kind = "no_result" THEN TRUE
       ELSE last_fragment'.kind \in {"interim", "final"} /\ last_fragment'.text = ""

\* the handling of a transcript event raised in this step
Raised == bad_events' = bad_events + 1 /\ last_fragment'.kind = "raised"

C26_EventStep ==
    /\ Skipped =>
           /\ errors' = errors
           /\ displayed' = displayed
           /\ emitted' = emitted
           /\ scheduled_polish' = scheduled_polish
           /\ polish_queue' = polish_queue
           /\ pending_text' = pending_text
           /\ last_translation_time' = last_translation_time
    /\ Raised =>
           /\ errors' = Append(errors, "transcript failed")
           /\ UNCHANGED <<connection, is_running, connection_ready, polish_task,
                          polish_queue, scheduled_polish, last_translation_time>>
    /\ (bad_events > 0 /\ Arrived) =>
           /\ C2_InterimStep
           /\ C2_FinalStep
           /\ errors' = errors
           /\ NewFragment.is_final => pending_text' = ""
           /\ (interim_results /\ ~NewFragment.is_final) =>
                  /\ pending_text' = NewFragment.text
                  /\ emitted' = Append(emitted,
                                       TranscriptionResult("en", NewFragment.text, "", FALSE))

HeldEvent == connection' \in {"errored", "closed"} /\ connection' # connection

\* a reconnection loop is scheduled or under way
LoopActive == scheduled_reconnect > 0 \/ sleepers > 0

C30_HeldEventStep == (HeldEvent /\ is_running) => LoopActive'

\* C30: an error or close event of the held connection that arrives while the
\* session is running is never lost: once it was handled a reconnection loop
\* is scheduled or under way, also when it arrived with the reconnecting
\* guard still set.
C30_NoLostEvent == [][C30_HeldEventStep]_vars

\* the source rates the capture is meant for
SupportedRate(rate) == rate \in {16000, 48000}

\* C21: no chunk captured at a source rate other than 48000 Hz or 16000 Hz is
\* ever put into the audio queue: with such a device the capture reports the
\* unsupported configuration at stream start and does not start.
C21_NoUnsupportedChunk == last_chunk # NoChunk => SupportedRate(device_sample_rate)

AbsDiff(a, b) == IF a >= b THEN a - b ELSE b - a

\* C22: a chunk of N frames from the 48 kHz stereo stream is emitted as mono
\* 16-bit PCM of floor(N/3) samples, at most one sample off, two bytes a
\* sample; a chunk of N samples from a 16 kHz mono stream is emitted with
\* exactly N samples, 2N bytes.
C22_OutputLength ==
    last_chunk # NoChunk =>
        /\ (device_sample_rate = 48000 /\ last_chunk.channels = 2) =>
               /\ AbsDiff(last_chunk.samples, last_chunk.frames \div 3) <= 1
               /\ last_chunk.bytes = 2 * last_chunk.samples
        /\ (device_sample_rate = 16000 /\ last_chunk.channels = 1) =>
               /\ last_chunk.samples = last_chunk.frames
               /\ last_chunk.bytes = 2 * last_chunk.frames

\* a 48 kHz stereo chunk whose length is no multiple of three was emitted
C22_Witness ==
    /\ device_sample_rate = 48000
    /\ last_chunk.channels = 2
    /\ last_chunk.frames % 3 # 0
    /\ last_chunk.samples = last_chunk.frames \div 3 + 1

\* the last call of stop_capture() went through the join and the clearing of
\* the queue and has returned, and no start_capture() has set the flag since
StopCaptureReturned ==
    capture_caller = "idle" /\ last_stop_capture = "stopped" /\ ~is_recording

\* C38: after stop_capture() has returned the recorder is not recording and
\* the audio queue is empty and stays empty until the next start_capture():
\* no callback that ran beside stop_capture() puts a chunk into the queue
\* after it was cleared.
C38_EmptyAfterStop == StopCaptureReturned => audio_queue = 0

\* the _capture_loop threads that have not ended
LiveThreads == {i \in 1..Len(capture_threads) : capture_threads[i] # "done"}

\* C39: under any sequence of start_capture() and stop_capture() calls at
\* most one capture thread is alive at a time, also when start_capture()
\* follows a stop_capture() whose join timed out.
C39_OneCaptureThread == Cardinality(LiveThreads) <= 1

\* C35: a start() that raised does not leave the session marked running, so
\* that a later error or close event of the half-created connection schedules
\* no reconnection loop and send_audio passes nothing on.
C35_FailedStartNotRunning == caller = "start_failed" => ~is_running

\* an open, error or close event of a connection the session has given up is
\* handled
LateEvent == late_open' + late_close' < late_open + late_close

\* the session was started once and holds a connection that has not failed:
\* a connection the reconnection has opened, when another one was given up
HoldsFresh == starts = 1 /\ connection \in {"pending", "live"}

C32_LateStep ==
    (LateEvent /\ HoldsFresh) =>
        /\ connection_ready' = connection_ready
        /\ scheduled_reconnect' = scheduled_reconnect

\* C32: an open, error or close event of a connection that was torn down and
\* replaced neither sets nor clears the readiness of the connection the
\* session holds now and schedules nothing that tears that connection down.
C32_LateEventsIgnored == [][C32_LateStep]_vars

\* the results of polished transcripts that carry a translation
TranslatedResults ==
    {j \in 1..Len(emitted) :
        /\ emitted[j].is_final
        /\ emitted[j].detected_language # "system"
        /\ emitted[j].chinese_translation # ""}

\* the translation of the latest of them, or the empty text
LastPolishedTranslation ==
    IF TranslatedResults = {}
    THEN ""
    ELSE emitted[CHOOSE j \in TranslatedResults :
                     \A k \in TranslatedResults : k <= j].chinese_translation

\* an interim result is shown
InterimShown ==
    /\ Len(displayed') = Len(displayed) + 1
    /\ displayed'[Len(displayed')].duration = "2.0"

C37_InterimStep ==
    InterimShown => displayed'[Len(displayed')].chinese_text = LastPolishedTranslation

\* C37: the translation shown with an interim result is the translation of
\* the most recent polished transcript that had a non-empty translation, or
\* empty when there is none yet: never the text of the start message or of
\* the reconnection notice.
C37_InterimShowsLastPolished == [][C37_InterimStep]_vars

\* the texts of the fragments the recognizer marked final
FinalTexts == {frag_log[k].text : k \in FinalFragments}

\* C33: every result delivered to the transcription callback with is_final
\* set is the reconnection notice or belongs to a fragment the recognizer
\* marked final: the polished result of a throttled interim submission is not
\* delivered as final.
C33_FinalMeansFinal ==
    \A j \in 1..Len(emitted) :
        emitted[j].is_final =>
            IF emitted[j].detected_language = "system"
            THEN emitted[j] = reconnect_result
            ELSE emitted[j].original_text \in FinalTexts

\* stop() has returned on a session that was started, and start() was not
\* called since
StopReturned == caller \in {"idle", "restopped"} /\ starts > 0

\* C31: after stop() has returned the polish queue holds no leftover stop
\* sentinel and no leftover submission, so that the consumer of the next
\* start() is not ended by an entry of the session before.
C31_NoLeftover == StopReturned => polish_queue = <<>>

\* the reconnection was given up on a session nobody has stopped, and the
\* polish consumer task has ended
ConsumerEndedByFailure == exhausted /\ caller = "running" /\ polish_task = "done"

\* C34: the fragments submitted before the reconnection was given up still
\* get their results: the polish consumer does not end on the session being
\* marked not running while submissions are left in the queue.
C34_FailureKeepsSubmissions == ConsumerEndedByFailure => polish_queue = <<>>

\* the consumer is through with the submission it had in hand
ItemDone == polish_task = "inflight" /\ inflight' # inflight

\* the submission ended in a fault
ItemFaulted == ItemDone /\ errors' # errors

C36_ItemStep ==
    /\ ItemFaulted => errors' = Append(errors, "polish failed")
    /\ (ItemFaulted /\ is_running) =>
           IF polish_queue = <<>>
           THEN polish_task' = "waiting"
           ELSE /\ polish_task' = "inflight"
                /\ inflight' = Head(polish_queue).text

====
